---- MODULE Spec2Model ----
(***************************************************************************)
(* Style profiling service (python-ml-service): the StyleProfiler profile  *)
(* store (create_profile / update_profile / get_profile), its feature      *)
(* extractor and cluster analyzer, and the HTTP handlers in front of it.   *)
(*                                                                         *)
(* Python values are written as follows.  A dict is a function whose       *)
(* DOMAIN is its key set; None as a dict value (and as the default of      *)
(* dict.get) is the string "None"; a mapping field that is itself None     *)
(* (an unset Optional[Dict]) is NoneMap.  A float ratio a / b * 100 is the *)
(* pair <<100 * a, b>>.  Timestamps are readings of the clock `now`.       *)
(*                                                                         *)
(* scikit-learn is modelled by what its calls accept, raise and leave      *)
(* open: the mixture model and the forest are built with random_state=42,  *)
(* PCA is built without a random_state.                                    *)
(***************************************************************************)
EXTENDS Integers, Sequences, FiniteSets, TLC

VARIABLES
    profiles,       \* StyleProfiler.profiles of every process: store -> user -> profile
    disk_profiles,  \* <models_dir>/<user>_profile.joblib : user -> profile
    disk_models,    \* <models_dir>/<user>_models.joblib  : user -> fitted models
    now,            \* the wall clock read by np.datetime64('now')
    seedOutcome,    \* what the fixed seed (random_state=42) makes the fit do: record -> label
    lastCall,       \* the request handled last and its response
    expected,       \* history: user -> records given to create and updates since
    fx,             \* harness: the input drawn for a lone function or request, and its result
    style_profiles, \* agents service: style_profiles, key -> profile (saved at every write)
    batch_jobs,     \* agents service: batch_jobs, batch id -> job
    pending,        \* agents service: feedback requests waiting in process_feedback
    tasks,          \* agents service: background tasks added and not yet run
    runs            \* agents service, history: designer -> what was asked for them so far

agentVars == <<style_profiles, batch_jobs, pending, tasks, runs>>

vars == <<profiles, disk_profiles, disk_models, now, seedOutcome, lastCall, expected, fx,
          style_profiles, batch_jobs, pending, tasks, runs>>

----------------------------------------------------------------------------
(* Bounds *)

MaxBatch == 2       \* longest record list in one request to the store
MaxK == 3           \* largest requested n_clusters
MaxNow == 1         \* last clock reading
MaxStored == 4      \* most records the profiles on disk hold together
MaxFit == 3         \* longest record list given to a lone create
MaxMembers == 4     \* most members of a cluster given to a lone selection
ProbLevels == 2     \* membership probabilities are 0 .. ProbLevels (in ProbLevels-ths)
BulkRecords == 501  \* length of the one large portfolio
BulkValues == 60    \* distinct silhouette values in the large portfolio

----------------------------------------------------------------------------
(* Python values *)

PyNone == "None"
NoneMap == [none |-> "None"]
EmptyDict == [k \in {} |-> "None"]
NoProfile == [none |-> TRUE]

IsNone(m) == DOMAIN m = {"none"}

\* a JSON array as a value of a Dict[str, Any]: a list, which has no hash
ListValue == "[list]"
Unhashable(v) == v = ListValue

\* dict.get(key)
Get(d, key) == IF key \in DOMAIN d THEN d[key] ELSE PyNone

\* record.get(name, {})
GetMap(record, name) == IF name \in DOMAIN record THEN record[name] ELSE EmptyDict

\* the concatenation of a list of lists, and the sum of a list, by halves
RECURSIVE Flatten(_)
Flatten(ss) ==
    IF ss = <<>> THEN <<>>
    ELSE IF Len(ss) = 1 THEN ss[1]
    ELSE LET h == Len(ss) \div 2
         IN  Flatten(SubSeq(ss, 1, h)) \o Flatten(SubSeq(ss, h + 1, Len(ss)))

RECURSIVE SumSeq(_)
SumSeq(s) ==
    IF s = <<>> THEN 0
    ELSE IF Len(s) = 1 THEN s[1]
    ELSE LET h == Len(s) \div 2
         IN  SumSeq(SubSeq(s, 1, h)) + SumSeq(SubSeq(s, h + 1, Len(s)))

Range(s) == {s[i] : i \in 1..Len(s)}

Min(a, b) == IF a < b THEN a ELSE b
Max(a, b) == IF a > b THEN a ELSE b

Digit == <<"0", "1", "2", "3", "4", "5", "6", "7", "8", "9">>

\* the values of the large portfolio: "x01", "x02", ...
BulkValue(i) == "x" \o Digit[((i \div 10) % 10) + 1] \o Digit[(i % 10) + 1]

\* every string value a record of the model carries, in str order
SortOrder ==
    <<"black", "chiffon", "flowing", "minimalist", "romantic", "tailored">>
    \o [i \in 1..BulkValues |-> BulkValue(i)]

\* sorted(values) of a set of strings
Sorted(values) ==
    IF values = {PyNone} THEN <<PyNone>>
    ELSE SelectSeq(SortOrder, LAMBDA v : v \in values)

\* sorted() compares its elements: None against a str is a TypeError
SortedRaises(values) == PyNone \in values /\ Cardinality(values) > 1

----------------------------------------------------------------------------
(* Identities and records *)

Users == {"u1", "u2"}
AllStores == {"p1", "p2"}
LocalStores == {"p1"}

\* records as VLTRecord.dict() of main.py delivers them: the three mappings are dicts
RecA == [id |-> "a", attributes |-> [silhouette |-> "tailored"],
         colors |-> EmptyDict, style |-> [aesthetic |-> "minimalist"]]
RecB == [id |-> "b", attributes |-> [fabrication |-> "chiffon"],
         colors |-> EmptyDict, style |-> [aesthetic |-> "romantic"]]
RecC == [id |-> "c", attributes |-> EmptyDict, colors |-> EmptyDict, style |-> EmptyDict]

\* records as VLTRecord.dict() of main_minimal.py delivers them: no id, and a
\* mapping the client left out is None
RecM == [attributes |-> NoneMap, colors |-> NoneMap, style |-> NoneMap]
RecP == [attributes |-> [silhouette |-> "flowing"], colors |-> [primary |-> "black"],
         style |-> [aesthetic |-> "romantic"]]

\* further records for the extractor alone: one mapping None, a value None
RecN == [attributes |-> [silhouette |-> "tailored"], colors |-> NoneMap, style |-> NoneMap]
RecQ == [id |-> "q", attributes |-> [silhouette |-> PyNone], colors |-> EmptyDict,
         style |-> EmptyDict]

\* a record of main.py with an array under an attribute the extractor skips
RecL == [id |-> "l", attributes |-> [silhouette |-> "tailored", details |-> ListValue],
         colors |-> EmptyDict, style |-> EmptyDict]

\* the records of the large portfolio, named by their silhouette
BulkNames == {BulkValue(i) : i \in 1..BulkValues}

RecX(v) == [id |-> v, attributes |-> [silhouette |-> v], colors |-> EmptyDict,
            style |-> EmptyDict]

\* a request names its records; Records(batch) is the list the handler passes on
Catalog ==
    [a |-> RecA, b |-> RecB, c |-> RecC, l |-> RecL, m |-> RecM, n |-> RecN, p |-> RecP,
     q |-> RecQ]
    @@ [v \in BulkNames |-> RecX(v)]

Records(batch) == [i \in 1..Len(batch) |-> Catalog[batch[i]]]

FullNames == {"a", "b", "c"}        \* main.py, given to a lone create
MinimalNames == {"m", "p"}          \* main_minimal.py
StoreNames == {"a", "c"}            \* main.py, given to the store
DetailNames == {"a", "l"}           \* main.py, one of them with an array
MixedNames == {"a", "b"}            \* main.py, no attribute value in common
ExtractNames == {"a", "b", "c", "m", "n", "p", "q"}

SeqsUpTo(S, n) == UNION {[1..m -> S] : m \in 0..n}

\* the large portfolio: every value in turn
BulkBatch == [i \in 1..BulkRecords |-> BulkValue(((i - 1) % BulkValues) + 1)]

AllBatches ==
    SeqsUpTo(StoreNames, MaxBatch) \cup SeqsUpTo(FullNames, MaxFit)
    \cup SeqsUpTo(MinimalNames, MaxBatch) \cup SeqsUpTo(ExtractNames, MaxBatch)
    \cup SeqsUpTo(DetailNames, MaxBatch)
    \cup {BulkBatch}

----------------------------------------------------------------------------
(* StyleProfiler._extract_features *)

AttrKeys == <<"silhouette", "neckline", "sleeveLength", "length", "waistline", "fabrication">>
StyleKeys == <<"overall", "formality", "aesthetic", "mood">>

\* the (key, value) pairs the first loop adds to categorical_values for one record
Collected(record) ==
    LET attrs == GetMap(record, "attributes")
        colors == GetMap(record, "colors")
        style == GetMap(record, "style")
        ak == SelectSeq(AttrKeys, LAMBDA k : k \in DOMAIN attrs)
        sk == SelectSeq(StyleKeys, LAMBDA k : k \in DOMAIN style)
    IN  [i \in 1..Len(ak) |-> <<ak[i], attrs[ak[i]]>>]
        \o (IF "primary" \in DOMAIN colors THEN <<<<"primary_color", colors["primary"]>>>> ELSE <<>>)
        \o (IF "finish" \in DOMAIN colors THEN <<<<"finish", colors["finish"]>>>> ELSE <<>>)
        \o [i \in 1..Len(sk) |-> <<sk[i], style[sk[i]]>>]

\* `key in attrs` with attrs None is a TypeError, and so is set.add of a list
CollectRaises(record) ==
    \/ IsNone(GetMap(record, "attributes"))
    \/ IsNone(GetMap(record, "colors"))
    \/ IsNone(GetMap(record, "style"))
    \/ \E i \in 1..Len(Collected(record)) : Unhashable(Collected(record)[i][2])

\* the keys of a dict filled in this order: each at its first occurrence
FirstSeen(keys) ==
    LET firsts == SelectSeq([i \in 1..Len(keys) |-> i],
                            LAMBDA i : \A j \in 1..(i - 1) : keys[j] # keys[i])
    IN  [n \in 1..Len(firsts) |-> keys[firsts[n]]]

\* categorical_values: its keys in insertion order, and the value set of a key
CategoricalKeys(vlt_records) ==
    LET pairs == Flatten([i \in 1..Len(vlt_records) |-> Collected(vlt_records[i])])
    IN  FirstSeen([i \in 1..Len(pairs) |-> pairs[i][1]])

CategoricalValues(vlt_records, key) ==
    LET pairs == Flatten([i \in 1..Len(vlt_records) |-> Collected(vlt_records[i])])
    IN  {pairs[i][2] : i \in {j \in 1..Len(pairs) : pairs[j][1] = key}}

\* the columns of the encoding, as (key, value) pairs in column order
Columns(vlt_records) ==
    LET keys == CategoricalKeys(vlt_records)
    IN  Flatten([i \in 1..Len(keys) |->
            LET vs == Sorted(CategoricalValues(vlt_records, keys[i]))
            IN  [j \in 1..Len(vs) |-> <<keys[i], vs[j]>>]])

\* the value the second loop compares with a column's value
FieldValue(record, key) ==
    IF key \in Range(AttrKeys) THEN Get(GetMap(record, "attributes"), key)
    ELSE IF key = "primary_color" THEN Get(GetMap(record, "colors"), "primary")
    ELSE IF key = "finish" THEN Get(GetMap(record, "colors"), "finish")
    ELSE Get(GetMap(record, "style"), key)

FeatureRow(record, cols) ==
    [j \in 1..Len(cols) |-> IF FieldValue(record, cols[j][1]) = cols[j][2] THEN 1 ELSE 0]

\* the second loop: one row per record, the names taken with the first row
one_hot(vlt_records, cols) ==
    [raised |-> "no",
     features |-> [i \in 1..Len(vlt_records) |-> FeatureRow(vlt_records[i], cols)],
     feature_names |-> IF vlt_records = <<>> THEN <<>>
                       ELSE [j \in 1..Len(cols) |-> cols[j][1] \o "_" \o cols[j][2]]]

extract_features(vlt_records) ==
    IF \E i \in 1..Len(vlt_records) : CollectRaises(vlt_records[i])
    THEN [raised |-> "TypeError"]
    ELSE IF /\ vlt_records # <<>>
            /\ \E k \in Range(CategoricalKeys(vlt_records)) :
                   SortedRaises(CategoricalValues(vlt_records, k))
    THEN [raised |-> "TypeError"]
    ELSE one_hot(vlt_records, Columns(vlt_records))

----------------------------------------------------------------------------
(* StyleProfiler._find_dominant_attributes *)

RECURSIVE SetToSeq(_)
SetToSeq(S) == IF S = {} THEN <<>>
               ELSE LET x == CHOOSE y \in S : TRUE IN <<x>> \o SetToSeq(S \ {x})

\* the (attribute name, value) pairs one record adds to attr_counts, in order
Counted(record) ==
    LET attrs == GetMap(record, "attributes")
        colors == GetMap(record, "colors")
        style == GetMap(record, "style")
        ak == SetToSeq(DOMAIN attrs)
        sk == SetToSeq(DOMAIN style)
    IN  [i \in 1..Len(ak) |-> <<ak[i], attrs[ak[i]]>>]
        \o (IF "primary" \in DOMAIN colors THEN <<<<"color", colors["primary"]>>>> ELSE <<>>)
        \o [i \in 1..Len(sk) |-> <<"style_" \o sk[i], style[sk[i]]>>]

\* attr_counts[key][value] += 1 hashes the value: a list is a TypeError
CountRaises(records) ==
    \E i \in 1..Len(records) :
        \E j \in 1..Len(Counted(records[i])) : Unhashable(Counted(records[i])[j][2])

\* the value met first, whatever its count
FirstMax_first_value(vals) ==
    <<vals[1], Cardinality({i \in 1..Len(vals) : vals[i] = vals[1]})>>

\* max(values.items(), key=count): the first value, in encounter order, with
\* the largest count
FirstMax(vals) ==
    LET count == [v \in Range(vals) |-> Cardinality({i \in 1..Len(vals) : vals[i] = v})] @@ <<>>
        most == CHOOSE c \in {count[v] : v \in DOMAIN count} :
                    \A v \in DOMAIN count : count[v] <= c
        best == CHOOSE i \in 1..Len(vals) :
                    /\ count[vals[i]] = most
                    /\ \A j \in 1..(i - 1) : count[vals[j]] < most
    IN  <<vals[best], most>>

find_dominant_attributes(records) ==
    LET pairs == Flatten([i \in 1..Len(records) |-> Counted(records[i])])
        names == {pairs[i][1] : i \in 1..Len(pairs)}
        valsOf(n) == LET mine == SelectSeq(pairs, LAMBDA p : p[1] = n)
                     IN  [i \in 1..Len(mine) |-> mine[i][2]]
    IN  [n \in names |-> FirstMax(valsOf(n))]

----------------------------------------------------------------------------
(* StyleProfiler._summarize_cluster_style *)

\* str.lower() and str.title() on the values of the model
Lower(v) == CASE v = "Tailored" -> "tailored"
              [] OTHER -> v

Title(v) == CASE v \in BulkNames ->
                       LET i == CHOOSE j \in 1..BulkValues : BulkValue(j) = v
                       IN  "X" \o Digit[((i \div 10) % 10) + 1] \o Digit[(i % 10) + 1]
              [] v = "black" -> "Black"
              [] v = "chiffon" -> "Chiffon"
              [] v = "flowing" -> "Flowing"
              [] v = "minimalist" -> "Minimalist"
              [] v = "romantic" -> "Romantic"
              [] v = "tailored" -> "Tailored"
              [] OTHER -> v

\* no keyword is ever found in a value
KeywordsIn_none(v) == {}

\* `keyword in value`: the archetype keywords that are substrings of a value
KeywordsIn(v) == CASE v = "chiffon" -> {"chiffon"}
                   [] v = "flowing" -> {"flowing"}
                   [] v = "minimalist" -> {"minimalist"}
                   [] v = "romantic" -> {"romantic"}
                   [] v = "tailored" -> {"tailored"}
                   [] OTHER -> {}

Has(keyword, v) == keyword \in KeywordsIn(v)

SummaryNames == <<"style_overall", "style_aesthetic", "silhouette", "color",
                  "fabrication", "style_formality">>

\* None has no .lower(): AttributeError
SummarizeRaises(dominant_attrs) ==
    \E i \in 1..Len(SummaryNames) :
        /\ SummaryNames[i] \in DOMAIN dominant_attrs
        /\ dominant_attrs[SummaryNames[i]][1] = PyNone

summarize_cluster_style(dominant_attrs) ==
    LET val(n) == IF n \in DOMAIN dominant_attrs
                  THEN Lower(dominant_attrs[n][1]) ELSE "unknown"
        overall_style == val("style_overall")
        aesthetic == val("style_aesthetic")
        silhouette == val("silhouette")
        color == val("color")
        fabrication == val("fabrication")
        formality == val("style_formality")
        part1 == IF aesthetic # "unknown" THEN Title(aesthetic)
                 ELSE IF overall_style # "unknown" THEN Title(overall_style)
                 ELSE "Contemporary"
        part2 == IF silhouette # "unknown" /\ silhouette \in {"tailored", "structured"}
                 THEN "Tailoring"
                 ELSE IF silhouette # "unknown" /\ silhouette \in {"fluid", "flowing", "draped"}
                 THEN "Flow"
                 ELSE IF fabrication # "unknown" THEN Title(fabrication)
                 ELSE "Mix"
        style_parts == <<part1, part2>>
    IN  IF \/ Has("minimalist", aesthetic) \/ Has("clean", aesthetic)
           \/ Has("structured", silhouette) \/ Has("tailored", silhouette)
           \/ Has("professional", overall_style) \/ Has("formal", formality)
           \/ Has("wool", fabrication) \/ Has("suiting", fabrication)
        THEN "Minimalist Tailoring"
        ELSE IF \/ Has("elegant", aesthetic) \/ Has("sophisticated", aesthetic)
                \/ Has("fluid", silhouette) \/ Has("flowing", silhouette)
                \/ Has("a-line", silhouette)
                \/ Has("evening", overall_style) \/ Has("formal", overall_style)
                \/ Has("silk", fabrication) \/ Has("charmeuse", fabrication)
                \/ Has("glossy", color)
        THEN "Fluid Evening"
        ELSE IF \/ Has("experimental", aesthetic) \/ Has("avant", aesthetic)
                \/ Has("edgy", aesthetic)
                \/ Has("deconstructed", silhouette) \/ Has("asymmetric", silhouette)
                \/ Has("technical", fabrication) \/ Has("innovative", fabrication)
                \/ Has("unconventional", overall_style)
        THEN "Experimental Edge"
        ELSE IF \/ Has("sporty", aesthetic) \/ Has("athletic", aesthetic)
                \/ Has("casual", aesthetic)
                \/ Has("relaxed", silhouette) \/ Has("loose", silhouette)
                \/ Has("sporty", overall_style) \/ Has("casual", overall_style)
                \/ Has("jersey", fabrication) \/ Has("knit", fabrication)
        THEN "Sporty Chic"
        ELSE IF \/ Has("romantic", aesthetic) \/ Has("bohemian", aesthetic)
                \/ Has("feminine", aesthetic)
                \/ Has("flowing", silhouette) \/ Has("draped", silhouette)
                \/ Has("boho", overall_style) \/ Has("artistic", overall_style)
                \/ Has("chiffon", fabrication) \/ Has("lace", fabrication)
        THEN "Romantic Bohemian"
        ELSE IF \/ Has("contemporary", aesthetic) \/ Has("modern", aesthetic)
                \/ Has("urban", aesthetic)
                \/ Has("versatile", overall_style) \/ Has("smart-casual", overall_style)
                \/ Has("cotton", fabrication) \/ Has("denim", fabrication)
        THEN "Urban Contemporary"
        ELSE IF \/ Has("classic", aesthetic) \/ Has("refined", aesthetic)
                \/ Has("traditional", aesthetic)
                \/ Has("fitted", silhouette) \/ Has("traditional", silhouette)
                \/ Has("business", overall_style) \/ Has("polished", overall_style)
        THEN "Classic Refined"
        ELSE IF Len(style_parts) >= 2 THEN style_parts[1] \o " " \o style_parts[2]
        ELSE IF style_parts # <<>> THEN style_parts[1]
        ELSE "Mixed Style"

----------------------------------------------------------------------------
(* StyleProfiler._analyze_clusters *)

\* labels.max()
MaxLabel(labels) == CHOOSE m \in Range(labels) : \A l \in Range(labels) : l <= m

Members(vlt_records, labels, cluster_id) ==
    LET idx == SelectSeq([i \in 1..Len(labels) |-> i], LAMBDA i : labels[i] = cluster_id)
    IN  [j \in 1..Len(idx) |-> vlt_records[idx[j]]]

\* list.sort(key=size, reverse=True): stable, larger sizes first
RECURSIVE InsertBySize(_, _)
InsertBySize(sorted, c) ==
    IF sorted = <<>> THEN <<c>>
    ELSE IF Head(sorted).size >= c.size THEN <<Head(sorted)>> \o InsertBySize(Tail(sorted), c)
    ELSE <<c>> \o sorted

RECURSIVE SortBySize(_)
SortBySize(clusters) ==
    IF clusters = <<>> THEN <<>>
    ELSE InsertBySize(SortBySize(SubSeq(clusters, 1, Len(clusters) - 1)),
                      clusters[Len(clusters)])

cluster_info(vlt_records, labels, cluster_id) ==
    LET cluster_records == Members(vlt_records, labels, cluster_id)
        dominant_attrs == find_dominant_attributes(cluster_records)
    IN  [id |-> cluster_id,
         size |-> Len(cluster_records),
         percentage |-> <<100 * Len(cluster_records), Len(vlt_records)>>,
         dominant_attributes |-> dominant_attrs,
         style_summary |-> summarize_cluster_style(dominant_attrs)]

\* range(labels.max()) in place of range(labels.max() + 1)
analyze_clusters_short(vlt_records, labels) ==
    LET ids == [i \in 1..MaxLabel(labels) |-> i - 1]
    IN  SortBySize([i \in 1..Len(ids) |-> cluster_info(vlt_records, labels, ids[i])])

analyze_clusters(vlt_records, labels) ==
    LET ids == [i \in 1..(MaxLabel(labels) + 1) |-> i - 1]    \* range(n_clusters)
    IN  SortBySize([i \in 1..Len(ids) |-> cluster_info(vlt_records, labels, ids[i])])

\* the loop ends at the first cluster whose counting or naming raises
ClusterRaises(vlt_records, labels, cluster_id) ==
    \/ CountRaises(Members(vlt_records, labels, cluster_id))
    \/ SummarizeRaises(find_dominant_attributes(Members(vlt_records, labels, cluster_id)))

AnalyzeRaises(vlt_records, labels) ==
    \E c \in 0..MaxLabel(labels) : ClusterRaises(vlt_records, labels, c)

AnalyzeError(vlt_records, labels) ==
    LET c == CHOOSE d \in 0..MaxLabel(labels) :
                 /\ ClusterRaises(vlt_records, labels, d)
                 /\ \A e \in 0..(d - 1) : ~ClusterRaises(vlt_records, labels, e)
    IN  IF CountRaises(Members(vlt_records, labels, c)) THEN "TypeError"
        ELSE "AttributeError"

----------------------------------------------------------------------------
(* StyleProfiler._compute_statistics, _compute_feature_importance *)

\* a defaultdict(int) of occurrence counts
Counts(vals) == [v \in Range(vals) |-> Cardinality({i \in 1..Len(vals) : vals[i] = v})]

\* max(c['percentage'] for c in clusters)
LargestPercentage(clusters) ==
    IF clusters = <<>> THEN <<0, 1>>
    ELSE LET ps == {clusters[i].percentage : i \in 1..Len(clusters)}
         IN  CHOOSE p \in ps : \A q \in ps : q[1] * p[2] <= p[1] * q[2]

compute_statistics(vlt_records, clusters) ==
    LET with(m, key) == SelectSeq(vlt_records, LAMBDA r : key \in DOMAIN GetMap(r, m))
        colored == with("colors", "primary")
        styled == with("style", "overall")
    IN  [garment_distribution |->
             Counts([i \in 1..Len(vlt_records) |->
                        IF "garment_type" \in DOMAIN vlt_records[i]
                        THEN vlt_records[i]["garment_type"] ELSE "unknown"]),
         color_distribution |-> Counts([i \in 1..Len(colored) |-> colored[i].colors["primary"]]),
         style_distribution |-> Counts([i \in 1..Len(styled) |-> styled[i].style["overall"]]),
         diversity_score |-> IF vlt_records # <<>> THEN <<Len(clusters), Len(vlt_records)>>
                             ELSE <<0, 1>>,
         largest_cluster_percentage |-> LargestPercentage(clusters)]

\* the names of the (at most 10) highest ranked features; the ranking of the
\* seeded forest is not modelled, with 10 names or fewer all of them are kept
compute_feature_importance(feature_names, labels) ==
    IF Cardinality(Range(labels)) < 2 THEN {}
    ELSE IF Cardinality(Range(feature_names)) <= 10 THEN Range(feature_names)
    ELSE CHOOSE top \in SUBSET Range(feature_names) : Cardinality(top) = 10

----------------------------------------------------------------------------
(* scikit-learn, as StyleProfiler calls it *)

\* StandardScaler().fit_transform(features): input validation wants a 2-D
\* array with at least one column; np.array([]) of an empty batch is 1-D
ScalerFitRaises(features) == features = <<>> \/ Len(features[1]) = 0

\* n_pca_components
PcaComponents(features) == Min(10, Min(Len(features), Len(features[1])))

\* PCA(n_components=n_pca_components) leaves svd_solver='auto' and
\* random_state=None: beyond 500 rows or columns, with fewer components than
\* 0.8 * min(shape) (and, in later releases, fewer than 10 rows per column or
\* more than 1000 columns), fit_transform takes the randomized solver, which
\* draws from numpy's global generator
PcaRandomized(features) ==
    LET n_samples == Len(features)
        n_features == Len(features[1])
    IN  /\ Max(n_samples, n_features) > 500
        /\ 5 * PcaComponents(features) < 4 * Min(n_samples, n_features)
        /\ n_features > 1000 \/ n_samples < 10 * n_features

\* what the generator can make of one fit: nothing under the exact solver
PcaDraws(features) == IF PcaRandomized(features) THEN {0, 1} ELSE {0}

\* GaussianMixture(n_components).fit_predict(X): input validation wants at
\* least 2 samples, at least one component and n_samples >= n_components
GmmFitRaises(n_samples, n_components) ==
    n_samples < 2 \/ n_components < 1 \/ n_samples < n_components

\* the label the seeded mixture gives a record
Seeded(x) == IF x \in DOMAIN seedOutcome THEN seedOutcome[x] ELSE 0

\* the labels of the fit: random_state=42 makes them a function of the
\* projected input, equal rows get equal labels; which function is drawn once
\* (seedOutcome), and the projection is as PCA drew it
fit_predict(batch, n_components, draw) ==
    [i \in 1..Len(batch) |-> (Seeded(batch[i]) + draw) % n_components]

\* scaler.transform(new_features): 2-D input with the fitted number of columns
ScalerTransformRaises(scaler, new_features) ==
    \/ new_features = <<>>
    \/ Len(new_features[1]) # scaler.n_features_in

----------------------------------------------------------------------------
(* The extraction and the analysis of every batch, evaluated once *)

\* f, enumerated: TLC then keeps the values instead of the defining expression
Table(f) == f @@ <<>>

Extracted == Table([batch \in AllBatches |-> extract_features(Records(batch))])

\* the batches a fit accepts, and the labels a fit can give them
FitBatches == {batch \in AllBatches : /\ Len(batch) >= 2
                                      /\ Extracted[batch].raised = "no"
                                      /\ ~ScalerFitRaises(Extracted[batch].features)}

FitLabels(batch) ==
    IF Len(batch) <= MaxFit THEN [1..Len(batch) -> 0..(Len(batch) - 1)]
    ELSE {[i \in 1..Len(batch) |-> c] : c \in 0..1}

\* what create_profile puts in the profile once the clusters are analyzed
analysis(vlt_records, feature_names, labels, clusters) ==
    [raised |-> "no",
     clusters |-> clusters,
     statistics |-> compute_statistics(vlt_records, clusters),
     feature_importance |-> compute_feature_importance(feature_names, labels)]

Analyzed ==
    Table([batch \in FitBatches |->
        Table([labels \in FitLabels(batch) |->
            IF AnalyzeRaises(Records(batch), labels)
            THEN [raised |-> AnalyzeError(Records(batch), labels)]
            ELSE analysis(Records(batch), Extracted[batch].feature_names, labels,
                          analyze_clusters(Records(batch), labels))])])

----------------------------------------------------------------------------
(* StyleProfiler.create_profile *)

ClampedK(n_records, n_clusters) ==
    IF n_records < n_clusters THEN Max(1, n_records) ELSE n_clusters

\* create_profile from the analysis an of the clusters on: the profile and
\* the models it saves and caches
create_analyzed(user_id, batch, k, t, labels, fe, an) ==
    IF an.raised # "no"
    THEN [error |-> an.raised, steps |-> <<"extract", "scaler", "pca", "gmm", "analyze">>]
    ELSE [error |-> "none",
          steps |-> <<"extract", "scaler", "pca", "gmm", "analyze", "save", "cache">>,
          labels |-> labels,
          profile |->
              [user_id |-> user_id,
               n_records |-> Len(batch),
               n_clusters |-> k,
               clusters |-> an.clusters,
               statistics |-> an.statistics,
               feature_importance |-> an.feature_importance,
               created_at |-> t,
               updated_at |-> t],
          models |->
              [gmm |-> [n_components |-> k, fit_data |-> batch],
               scaler |-> [n_features_in |-> Len(fe.features[1]), fit_data |-> batch],
               pca |-> [n_components |-> PcaComponents(fe.features), fit_data |-> batch]]]

\* create_profile from the labels of the fit on
create_labelled(user_id, batch, k, t, labels, fe) ==
    create_analyzed(user_id, batch, k, t, labels, fe, Analyzed[batch][labels])

\* create_profile from the extracted features fe on, with k the clamped count
create_extracted(user_id, batch, k, t, draw, fe) ==
    IF fe.raised # "no"
    THEN [error |-> fe.raised, steps |-> <<"extract">>]
    ELSE IF ScalerFitRaises(fe.features)
    THEN [error |-> "ValueError", steps |-> <<"extract", "scaler">>]
    ELSE IF GmmFitRaises(Len(batch), k)
    THEN [error |-> "ValueError", steps |-> <<"extract", "scaler", "pca", "gmm">>]
    ELSE create_labelled(user_id, batch, k, t, fit_predict(batch, k, draw), fe)

\* the outcome of create_profile read at clock t: the exception and the stages
\* entered, or the profile and the models it saves and caches
create_profile(user_id, batch, n_clusters, t, draw) ==
    create_extracted(user_id, batch, ClampedK(Len(batch), n_clusters), t, draw,
                     Extracted[batch])

----------------------------------------------------------------------------
(* StyleProfiler.get_profile *)

\* what get_profile returns, and the cache it leaves
get_profile(cache, user_id) ==
    IF cache[user_id] # NoProfile THEN cache[user_id]
    ELSE IF disk_profiles[user_id] # NoProfile THEN disk_profiles[user_id]
    ELSE NoProfile

\* a get_profile that returns the loaded profile without caching it
cache_after_get_uncached(cache, user_id) == cache

cache_after_get(cache, user_id) ==
    IF cache[user_id] # NoProfile THEN cache
    ELSE IF disk_profiles[user_id] # NoProfile
    THEN [cache EXCEPT ![user_id] = disk_profiles[user_id]]
    ELSE cache

----------------------------------------------------------------------------
(* StyleProfiler._update_cluster_stats, update_profile *)

update_cluster_stats(existing_clusters, new_records, new_labels) ==
    [p \in 1..Len(existing_clusters) |->
        LET cluster_id == p - 1        \* enumerate(existing_clusters)
            cluster == existing_clusters[p]
            new_cluster_records == Members(new_records, new_labels, cluster_id)
        IN  IF new_cluster_records # <<>>
            THEN [cluster EXCEPT
                    !.size = @ + Len(new_cluster_records),
                    !.dominant_attributes = find_dominant_attributes(new_cluster_records)]
            ELSE cluster]

\* the positions whose new records make _find_dominant_attributes raise
StatsRaisingAt(existing_clusters, new_records, new_labels) ==
    {p \in 1..Len(existing_clusters) : CountRaises(Members(new_records, new_labels, p - 1))}

UpdateStatsRaises(existing_clusters, new_records, new_labels) ==
    StatsRaisingAt(existing_clusters, new_records, new_labels) # {}

\* the cluster dicts are changed in place: what the list holds when the loop
\* is left by the exception, the size of the raising position already added to
update_cluster_stats_raised(existing_clusters, new_records, new_labels) ==
    LET raising == StatsRaisingAt(existing_clusters, new_records, new_labels)
        q == CHOOSE p \in raising : \A r \in raising : p <= r
        done == update_cluster_stats(existing_clusters, new_records, new_labels)
    IN  [p \in 1..Len(existing_clusters) |->
            IF p < q THEN done[p]
            ELSE IF p = q THEN [existing_clusters[p] EXCEPT !.size = done[p].size]
            ELSE existing_clusters[p]]

\* an update that also stamps created_at
updated_profile_restamped(profile, updated_clusters, new_vlt_records, t) ==
    [profile EXCEPT
       !.clusters = updated_clusters,
       !.n_records = @ + Len(new_vlt_records),
       !.created_at = t,
       !.updated_at = t,
       !.statistics = compute_statistics(<<>>, updated_clusters)]

\* profile['n_records'] = len(new_vlt_records) in place of +=
updated_profile_overwritten(profile, updated_clusters, new_vlt_records, t) ==
    [profile EXCEPT
       !.clusters = updated_clusters,
       !.n_records = Len(new_vlt_records),
       !.updated_at = t,
       !.statistics = compute_statistics(<<>>, updated_clusters)]

\* the profile dict after the assignments of update_profile; the statistics
\* are computed from what _get_all_vlt_records returns, the empty list
updated_profile(profile, updated_clusters, new_vlt_records, t) ==
    [profile EXCEPT
       !.clusters = updated_clusters,
       !.n_records = @ + Len(new_vlt_records),
       !.updated_at = t,
       !.statistics = compute_statistics(<<>>, updated_clusters)]

\* update_profile from the extracted features fe of the new records on
update_extracted(profile, models, new_vlt_records, new_labels, t, fe) ==
    IF fe.raised # "no"
    THEN [error |-> fe.raised, steps |-> <<"get_profile", "load_models", "extract">>]
    ELSE IF ScalerTransformRaises(models.scaler, fe.features)
    THEN [error |-> "ValueError",
          steps |-> <<"get_profile", "load_models", "extract", "scaler">>]
    ELSE IF UpdateStatsRaises(profile.clusters, new_vlt_records, new_labels)
    THEN [error |-> "TypeError",
          steps |-> <<"get_profile", "load_models", "extract", "scaler", "pca",
                      "gmm", "update_stats">>,
          left |-> [profile EXCEPT
                      !.clusters = update_cluster_stats_raised(@, new_vlt_records,
                                                               new_labels)]]
    ELSE [error |-> "none",
          steps |-> <<"get_profile", "load_models", "extract", "scaler", "pca",
                      "gmm", "update_stats", "save", "cache">>,
          labels |-> new_labels,
          profile |-> updated_profile(profile,
                                      update_cluster_stats(profile.clusters,
                                                           new_vlt_records, new_labels),
                                      new_vlt_records, t),
          models |-> models]

\* an update_profile that goes on without the models when their file is gone
update_loaded_without_models(profile, models, new_batch, new_labels, t) ==
    IF models = NoProfile
    THEN [error |-> "none",
          steps |-> <<"get_profile", "update_stats", "save", "cache">>,
          labels |-> new_labels,
          profile |-> updated_profile(profile,
                                      update_cluster_stats(profile.clusters,
                                                           Records(new_batch), new_labels),
                                      Records(new_batch), t),
          models |-> models]
    ELSE update_extracted(profile, models, Records(new_batch), new_labels, t,
                          Extracted[new_batch])

\* update_profile from _load_models on
update_loaded(profile, models, new_batch, new_labels, t) ==
    IF models = NoProfile
    THEN [error |-> "FileNotFoundError", steps |-> <<"get_profile", "load_models">>]
    ELSE update_extracted(profile, models, Records(new_batch), new_labels, t,
                          Extracted[new_batch])

\* an update_profile without `if not profile: raise ValueError`
update_profile_unchecked(profile, models, new_batch, new_labels, t) ==
    update_loaded(profile, models, new_batch, new_labels, t)

\* the outcome of update_profile for the profile get_profile returned, with
\* the labels the stored mixture model predicts for the new records
update_profile(profile, models, new_batch, new_labels, t) ==
    IF profile = NoProfile
    THEN [error |-> "ValueError", steps |-> <<"get_profile">>]
    ELSE update_loaded(profile, models, new_batch, new_labels, t)

----------------------------------------------------------------------------
(* The state after construction *)

\* the records a fit can see: extraction accepts them
FitNames == {x \in FullNames \cup MinimalNames : ~CollectRaises(Catalog[x])}

Idle == [fn |-> "none"]

\* no request is being handled
Waiting == [op |-> "idle"]

InitStore ==
    /\ profiles = [s \in AllStores |-> [u \in Users |-> NoProfile]]
    /\ disk_profiles = [u \in Users |-> NoProfile]
    /\ disk_models = [u \in Users |-> NoProfile]
    /\ now = 0
    /\ expected = [u \in Users |-> 0]
    /\ lastCall = Waiting
    /\ style_profiles = <<>>
    /\ batch_jobs = <<>>
    /\ pending = <<>>
    /\ tasks = {}
    /\ runs = <<>>

Init ==
    /\ InitStore
    /\ seedOutcome \in [FitNames -> 0..(MaxBatch - 1)]
    /\ \A x \in FitNames \ StoreNames : seedOutcome[x] = 0
    /\ fx = Idle

----------------------------------------------------------------------------
(* The HTTP handlers, each with the StyleProfiler call it makes *)

RecordsOnDisk(u) == IF disk_profiles[u] = NoProfile THEN 0 ELSE disk_profiles[u].n_records

\* the large portfolio is not counted against MaxStored
Budgeted(n) == IF n >= BulkRecords THEN n - BulkRecords ELSE n

\* the records on disk once user u holds n of them
StoredWith(u, n) ==
    Budgeted(n) + SumSeq([i \in 1..Len(SetToSeq(Users \ {u})) |->
                             Budgeted(RecordsOnDisk(SetToSeq(Users \ {u})[i]))])

\* _save_profile with one profile.joblib for every user_id
Stored_in_one_file(s, u, r) ==
    /\ profiles' = [profiles EXCEPT ![s][u] = r.profile]
    /\ disk_profiles' = [v \in Users |-> r.profile]
    /\ disk_models' = [disk_models EXCEPT ![u] = r.models]

\* _save_profile without self.profiles[user_id] = profile
Stored_on_disk_only(s, u, r) ==
    /\ profiles' = profiles
    /\ disk_profiles' = [disk_profiles EXCEPT ![u] = r.profile]
    /\ disk_models' = [disk_models EXCEPT ![u] = r.models]

\* _save_profile, then self.profiles[user_id] = profile
Stored(s, u, r) ==
    /\ profiles' = [profiles EXCEPT ![s][u] = r.profile]
    /\ disk_profiles' = [disk_profiles EXCEPT ![u] = r.profile]
    /\ disk_models' = [disk_models EXCEPT ![u] = r.models]

\* what a successful create leaves but for the identity and the timestamps
Outcome(r) ==
    [labels |-> r.labels, n_records |-> r.profile.n_records,
     n_clusters |-> r.profile.n_clusters, clusters |-> r.profile.clusters,
     statistics |-> r.profile.statistics,
     feature_importance |-> r.profile.feature_importance]

\* what the unseeded PCA can draw while create_profile fits features fe
CreateDraws(fe) ==
    IF fe.raised = "no" /\ ~ScalerFitRaises(fe.features) THEN PcaDraws(fe.features) ELSE {0}

\* a create handler once create_profile has ended as r: the profile is
\* answered (200), an exception becomes a 500
CreateAnswer(endpoint, s, u, records, k, r) ==
    /\ lastCall = Waiting
    /\ r.error = "none" => StoredWith(u, Len(records)) <= MaxStored
    /\ IF r.error = "none"
       THEN /\ Stored(s, u, r)
            /\ expected' = [expected EXCEPT ![u] = Len(records)]
       ELSE UNCHANGED <<profiles, disk_profiles, disk_models, expected>>
    /\ lastCall' = [op |-> "create", endpoint |-> endpoint, store |-> s,
                    user |-> u, records |-> records, k |-> k,
                    before |-> RecordsOnDisk(u),
                    error |-> r.error, steps |-> r.steps,
                    http |-> IF r.error = "none" THEN 200 ELSE 500,
                    labels |-> IF r.error = "none" THEN r.labels ELSE <<>>,
                    ret |-> IF r.error = "none" THEN r.profile ELSE NoProfile]
    /\ fx' = IF fx.fn = "repeat" /\ fx.first = NoProfile /\ r.error = "none"
             THEN [fx EXCEPT !.first = Outcome(r)]
             ELSE fx
    /\ UNCHANGED <<now, seedOutcome,
                 agentVars>>

\* a handler around create_profile
CreateCall(endpoint, s, u, records, k) ==
    \E draw \in CreateDraws(Extracted[records]) :
        CreateAnswer(endpoint, s, u, records, k, create_profile(u, records, k, now, draw))

\* main.py: POST /api/ml/style-profile/create
create_style_profile(s, u, records, k) ==
    CreateCall("/api/ml/style-profile/create", s, u, records, k)

\* main_minimal.py: POST /api/style-profile
generate_style_profile(s, u, records, k) ==
    CreateCall("/api/style-profile", s, u, records, k)

\* the labels gmm.predict can give the new records
PredictChoices(models, new_records) ==
    IF models = NoProfile THEN {[i \in 1..Len(new_records) |-> 0]}
    ELSE [1..Len(new_records) -> 0..(models.gmm.n_components - 1)]

\* the cache after an update_profile that raised: the profile get_profile
\* returned is the cached dict, as the call left it
Raised(cache, u, r) ==
    IF "left" \in DOMAIN r THEN [cache EXCEPT ![u] = r.left] ELSE cache

\* the records the clusters of a profile count together
Clustered(profile) == SumSeq([i \in 1..Len(profile.clusters) |-> profile.clusters[i].size])

\* the update handler once update_profile has ended as r
UpdateAnswer(s, u, new_records, r) ==
    /\ lastCall = Waiting
    /\ r.error = "none" => StoredWith(u, r.profile.n_records) <= MaxStored
    /\ "left" \in DOMAIN r => Clustered(r.left) <= MaxStored
    /\ IF r.error = "none"
       THEN /\ Stored(s, u, r)
            /\ expected' = [expected EXCEPT ![u] = @ + Len(new_records)]
       ELSE /\ profiles' = [profiles EXCEPT ![s] = Raised(cache_after_get(@, u), u, r)]
            /\ UNCHANGED <<disk_profiles, disk_models, expected>>
    /\ lastCall' = [op |-> "update", endpoint |-> "/api/ml/style-profile/update",
                    store |-> s, user |-> u, records |-> new_records,
                    error |-> r.error, steps |-> r.steps,
                    http |-> IF r.error = "none" THEN 200 ELSE 500,
                    labels |-> IF r.error = "none" THEN r.labels ELSE <<>>,
                    ret |-> IF r.error = "none" THEN r.profile ELSE NoProfile]
    /\ UNCHANGED <<now, seedOutcome, fx,
                 agentVars>>

\* main.py: POST /api/ml/style-profile/update
update_style_profile(s, u, new_records) ==
    \E new_labels \in PredictChoices(disk_models[u], new_records) :
        UpdateAnswer(s, u, new_records,
                     update_profile(get_profile(profiles[s], u), disk_models[u],
                                    new_records, new_labels, now))

\* main.py: GET /api/ml/style-profile/{user_id}; main_minimal.py: GET /api/style-profile/{userId}
get_style_profile(s, u) ==
    LET profile == get_profile(profiles[s], u)
    IN  /\ lastCall = Waiting
        /\ profiles' = [profiles EXCEPT ![s] = cache_after_get(@, u)]
        /\ lastCall' = [op |-> "get", endpoint |-> "/api/ml/style-profile/{user_id}",
                        store |-> s, user |-> u, error |-> "none",
                        cached |-> profiles[s][u] # NoProfile,
                        steps |-> <<"get_profile">>,
                        http |-> IF profile = NoProfile THEN 404 ELSE 200,
                        ret |-> profile]
        /\ UNCHANGED <<disk_profiles, disk_models, now, seedOutcome, expected, fx,
                     agentVars>>

\* the service process is started again: StyleProfiler.__init__ over the same models_dir
Restart(s) ==
    /\ lastCall = Waiting
    /\ profiles' = [profiles EXCEPT ![s] = [u \in Users |-> NoProfile]]
    /\ UNCHANGED <<disk_profiles, disk_models, now, seedOutcome, lastCall, expected, fx,
                 agentVars>>

\* a second passes
Tick ==
    /\ lastCall = Waiting
    /\ now < MaxNow
    /\ now' = now + 1
    /\ UNCHANGED <<profiles, disk_profiles, disk_models, seedOutcome, lastCall, expected, fx,
                 agentVars>>

\* the response is sent: the (request-synchronous) service takes the next request
Respond ==
    /\ lastCall # Waiting
    /\ lastCall' = Waiting
    /\ UNCHANGED <<profiles, disk_profiles, disk_models, now, seedOutcome, expected, fx,
                 agentVars>>

Next ==
    \/ \E s \in LocalStores, u \in Users, records \in SeqsUpTo(StoreNames, MaxBatch),
          k \in 1..MaxK :
           create_style_profile(s, u, records, k)
    \/ \E s \in LocalStores, u \in Users, records \in SeqsUpTo(StoreNames, MaxBatch) :
           update_style_profile(s, u, records)
    \/ \E s \in LocalStores, u \in Users : get_style_profile(s, u)
    \/ \E s \in LocalStores : Restart(s)
    \/ Tick
    \/ Respond

Spec == Init /\ [][Next]_vars

----------------------------------------------------------------------------
(* A lone create on a fresh store, for every request and every outcome of the seed *)

CreateRequests ==
    {[endpoint |-> "/api/ml/style-profile/create", records |-> b, k |-> k] :
         b \in SeqsUpTo(FullNames, MaxFit), k \in 1..MaxK}
    \cup
    {[endpoint |-> "/api/style-profile", records |-> b, k |-> k] :
         b \in SeqsUpTo(MinimalNames, MaxBatch), k \in 1..MaxK}

InitCreate ==
    /\ InitStore
    /\ seedOutcome \in [FitNames -> 0..(MaxFit - 1)]
    /\ seedOutcome["p"] = 0
    /\ fx \in {[fn |-> "create", in |-> q] : q \in CreateRequests}

LoneCreate ==
    /\ fx.fn = "create"
    /\ \/ /\ fx.in.endpoint = "/api/ml/style-profile/create"
          /\ create_style_profile("p1", "u1", fx.in.records, fx.in.k)
       \/ /\ fx.in.endpoint = "/api/style-profile"
          /\ generate_style_profile("p1", "u1", fx.in.records, fx.in.k)

SpecCreate == InitCreate /\ [][LoneCreate]_vars

----------------------------------------------------------------------------
(* One create request given again and again, to either identity, while the
   store goes on: fx.first keeps what the first successful create left *)

InitRepeat ==
    /\ InitStore
    /\ seedOutcome \in [FitNames -> 0..(MaxBatch - 1)]
    /\ \A x \in FitNames \ StoreNames : seedOutcome[x] = 0
    /\ fx \in {[fn |-> "repeat", in |-> [records |-> b, k |-> k], first |-> NoProfile] :
                 b \in SeqsUpTo(StoreNames, MaxBatch) \cup {BulkBatch}, k \in 1..MaxK}

NextRepeat ==
    \/ \E s \in LocalStores, u \in Users :
           create_style_profile(s, u, fx.in.records, fx.in.k)
    \/ \E s \in LocalStores, u \in Users, records \in SeqsUpTo(StoreNames, MaxBatch) :
           update_style_profile(s, u, records)
    \/ Tick
    \/ Respond

SpecRepeat == InitRepeat /\ [][NextRepeat]_vars

----------------------------------------------------------------------------
(* The feature extractor alone *)

ExtractInputs == SeqsUpTo(ExtractNames, MaxBatch)

InitExtract ==
    /\ InitStore
    /\ seedOutcome = [x \in FitNames |-> 0]
    /\ fx \in {[fn |-> "extract", in |-> b, out |-> [raised |-> "pending"]] : b \in ExtractInputs}

Extract ==
    /\ fx.fn = "extract"
    /\ fx.out.raised = "pending"
    /\ fx' = [fx EXCEPT !.out = Extracted[fx.in]]
    /\ UNCHANGED <<profiles, disk_profiles, disk_models, now, seedOutcome, lastCall, expected,
                 agentVars>>

SpecExtract == InitExtract /\ [][Extract]_vars

----------------------------------------------------------------------------
(* The service for chosen processes, identities and records *)

Calls(stores, users, names) ==
    \/ \E s \in stores, u \in users, records \in SeqsUpTo(names, MaxBatch),
          k \in 1..MaxBatch :
           create_style_profile(s, u, records, k)
    \/ \E s \in stores, u \in users, records \in SeqsUpTo(names, MaxBatch) :
           update_style_profile(s, u, records)
    \/ \E s \in stores, u \in users : get_style_profile(s, u)

\* one process, one identity, records of which some carry an array
NextDetail ==
    \/ Calls(LocalStores, {"u1"}, DetailNames)
    \/ \E s \in LocalStores : Restart(s)
    \/ Tick
    \/ Respond

SpecDetail == Init /\ [][NextDetail]_vars

\* two processes over one models_dir, one request at a time
NextShared ==
    \/ Calls(AllStores, {"u1"}, {"a"})
    \/ Respond

SpecShared == Init /\ [][NextShared]_vars

\* <models_dir>/<user>_models.joblib is lost (removed, or no longer readable)
RemoveModels(u) ==
    /\ lastCall = Waiting
    /\ disk_models[u] # NoProfile
    /\ disk_models' = [disk_models EXCEPT ![u] = NoProfile]
    /\ UNCHANGED <<profiles, disk_profiles, now, seedOutcome, lastCall, expected, fx,
                 agentVars>>

NextFault ==
    \/ Calls(LocalStores, {"u1"}, MixedNames)
    \/ RemoveModels("u1")
    \/ \E s \in LocalStores : Restart(s)
    \/ Respond

SpecFault == Init /\ [][NextFault]_vars

----------------------------------------------------------------------------
(* StyleProfiler._find_representative_records alone *)

\* np.argsort(probabilities): the member positions (from 0) in ascending
\* order of probability; the order among equal probabilities is the sort's
Argsorts(probabilities) ==
    LET m == Len(probabilities)
    IN  {order \in [1..m -> 0..(m - 1)] :
            /\ \A i, j \in 1..m : i # j => order[i] # order[j]
            /\ \A i \in 1..(m - 1) :
                   probabilities[order[i] + 1] <= probabilities[order[i + 1] + 1]}

\* records[i].get('imageId', records[i].get('id', f'record_{i}'))
Identifier(records, i) ==
    IF "imageId" \in DOMAIN records[i + 1] THEN records[i + 1]["imageId"]
    ELSE IF "id" \in DOMAIN records[i + 1] THEN records[i + 1]["id"]
    ELSE "record_" \o Digit[i + 1]

\* [-n_representatives:] of a list
LastN(s, n) == SubSeq(s, Max(1, Len(s) - n + 1), Len(s))

\* [::-1] of a list
Reversed(s) == [i \in 1..Len(s) |-> s[Len(s) + 1 - i]]

\* the selection without [::-1]
find_representative_records_ascending(records, order) ==
    LET top_indices == SelectSeq(LastN(order, 3), LAMBDA i : i < Len(records))
    IN  [k \in 1..Len(top_indices) |-> Identifier(records, top_indices[k])]

\* the selection, with order the outcome of np.argsort(probabilities)
find_representative_records(records, order) ==
    LET top_indices == SelectSeq(Reversed(LastN(order, 3)), LAMBDA i : i < Len(records))
    IN  [k \in 1..Len(top_indices) |-> Identifier(records, top_indices[k])]

\* the members of a cluster: records of main.py, or of main_minimal.py (no id)
MemberLists ==
    {SubSeq(<<"a", "b", "c", "q", "l">>, 1, Min(m, 5)) : m \in 0..MaxMembers}
    \cup {[i \in 1..m |-> "p"] : m \in 0..MaxMembers}

RepresentInputs ==
    UNION {{[records |-> b, probabilities |-> pr] : pr \in [1..Len(b) -> 0..ProbLevels]} :
              b \in MemberLists}

InitRepresent ==
    /\ InitStore
    /\ seedOutcome = [x \in FitNames |-> 0]
    /\ fx \in {[fn |-> "represent", in |-> q, out |-> <<"pending">>] : q \in RepresentInputs}

Represent ==
    /\ fx.fn = "represent"
    /\ fx.out = <<"pending">>
    /\ \E order \in Argsorts(fx.in.probabilities) :
           fx' = [fx EXCEPT !.out = <<"returned",
                                     find_representative_records(Records(fx.in.records),
                                                                 order)>>]
    /\ UNCHANGED <<profiles, disk_profiles, disk_models, now, seedOutcome, lastCall, expected,
                 agentVars>>

SpecRepresent == InitRepresent /\ [][Represent]_vars

----------------------------------------------------------------------------
(* The agents service (agents-service/main.py): profiles by version and batch jobs *)

Designers == {"d1", "d2"}
MaxSubmissions == 10   \* most feedback submissions taken for one designer
MaxInFlight == 1       \* most feedback requests waiting in process_feedback at once
MaxJobs == 2           \* most batch jobs created
BatchPrompts == 20     \* PromptArchitectAgent.optimize_prompt: range(20) in batch mode

JobIds == 1..MaxJobs   \* stand-ins for str(uuid.uuid4())

\* a list of FeedbackInput as f.dict(): overall_rating is Optional and None by
\* default, written <<>> for None and <<r>> for the integer r
FeedbackLists == {<<[selected |-> FALSE, rejected |-> FALSE, overall_rating |-> r]>> :
                      r \in {<<>>, <<5>>}}

\* str(version): the decimal digits, most significant first
RECURSIVE Decimal(_)
Decimal(n) == IF n < 10 THEN <<n>> ELSE Append(Decimal(n \div 10), n % 10)

\* Python's str order on two digit strings: a < b
StrBefore(a, b) ==
    \E i \in 1..(Min(Len(a), Len(b)) + 1) :
        /\ \A j \in 1..(i - 1) : a[j] = b[j]
        /\ \/ i > Len(a) /\ i <= Len(b)
           \/ i <= Len(a) /\ i <= Len(b) /\ a[i] < b[i]

\* f"{designer_id}_v{version}": the identity and the digits after "_v"
profile_key(designer_id, version) == <<designer_id, Decimal(version)>>

\* [k for k in style_profiles.keys() if k.startswith(f"{designer_id}_v")]
profile_keys(stored, designer_id) == {k \in DOMAIN stored : k[1] = designer_id}

\* sorted(profile_keys)[-1]: the last key in string order
latest_profile_key(stored, designer_id) ==
    CHOOSE k \in profile_keys(stored, designer_id) :
        \A o \in profile_keys(stored, designer_id) : ~StrBefore(k[2], o[2])

\* VisualAnalystAgent.analyze_portfolio: the profile it returns
analyzed_profile(designer_id) == [version |-> 1, designer_id |-> designer_id]

\* QualityCuratorAgent.process_feedback raises TypeError on a rating of None
\* (None >= 4, None <= 2 or the sum of the ratings)
FeedbackRaises(feedback_data) ==
    \E i \in 1..Len(feedback_data) : feedback_data[i].overall_rating = <<>>

\* QualityCuratorAgent.process_feedback: the copy it returns
process_feedback(feedback_data, current_profile) ==
    [version |-> current_profile.version + 1,
     designer_id |-> current_profile.designer_id,
     feedback_samples |-> (IF "feedback_samples" \in DOMAIN current_profile
                           THEN current_profile.feedback_samples ELSE 0)
                          + Len(feedback_data)]

\* POST /portfolio/analyze: the profile is stored as version 1 and saved
analyze_portfolio(d) ==
    /\ style_profiles' = (profile_key(d, 1) :> analyzed_profile(d)) @@ style_profiles
    /\ runs' = IF d \in DOMAIN runs
               THEN [runs EXCEPT ![d].analyses = 2]
               ELSE (d :> [analyses |-> 1, submitted |-> 0, overlapped |-> FALSE]) @@ runs
    /\ d \in DOMAIN runs => runs[d].analyses = 1
    /\ UNCHANGED <<profiles, disk_profiles, disk_models, now, seedOutcome, lastCall,
                   expected, fx, batch_jobs, pending, tasks>>

\* POST /feedback/submit up to the await: the latest profile is read
submit_feedback(d, feedback_list) ==
    /\ profile_keys(style_profiles, d) # {}
    /\ Len(pending) < MaxInFlight
    /\ runs[d].submitted + Len(SelectSeq(pending, LAMBDA q : q.designer_id = d))
           < MaxSubmissions
    /\ pending' = Append(pending,
                         [designer_id |-> d, feedback_data |-> feedback_list,
                          current_profile |->
                              style_profiles[latest_profile_key(style_profiles, d)]])
    /\ runs' = [runs EXCEPT ![d].overlapped =
                    @ \/ \E i \in 1..Len(pending) : pending[i].designer_id = d]
    /\ UNCHANGED <<profiles, disk_profiles, disk_models, now, seedOutcome, lastCall,
                   expected, fx, style_profiles, batch_jobs, tasks>>

\* the list without its i-th element
Without(s, i) == SubSeq(s, 1, i - 1) \o SubSeq(s, i + 1, Len(s))

\* POST /feedback/submit after the await: the new version is stored and saved,
\* or the exception of process_feedback becomes a 500
feedback_processed(i) ==
    LET q == pending[i]
        new_profile == process_feedback(q.feedback_data, q.current_profile)
    IN  /\ i \in 1..Len(pending)
        /\ pending' = Without(pending, i)
        /\ IF FeedbackRaises(q.feedback_data)
           THEN UNCHANGED <<style_profiles, runs>>
           ELSE /\ style_profiles' =
                       (profile_key(q.designer_id, new_profile.version)
                            :> new_profile) @@ style_profiles
                /\ runs' = [runs EXCEPT ![q.designer_id].submitted = @ + 1]
        /\ UNCHANGED <<profiles, disk_profiles, disk_models, now, seedOutcome, lastCall,
                       expected, fx, batch_jobs, tasks>>

\* POST /generation/generate with mode "batch": the job is created and its
\* background task added (404 without a profile; mode "specific" stores nothing)
generate_images(d, batch_id) ==
    /\ profile_keys(style_profiles, d) # {}
    /\ batch_id \notin DOMAIN batch_jobs
    /\ batch_jobs' = (batch_id :> [designer_id |-> d, status |-> "processing",
                                   total_images |-> BatchPrompts,
                                   completed_images |-> 0]) @@ batch_jobs
    /\ tasks' = tasks \cup {batch_id}
    /\ UNCHANGED <<profiles, disk_profiles, disk_models, now, seedOutcome, lastCall,
                   expected, fx, style_profiles, pending, runs>>

\* ImageRendererAgent.generate_images: "successful" of its result,
\* one for every i with i < len(prompts) * 0.8
successful(n_prompts) == Cardinality({i \in 0..(n_prompts - 1) : 10 * i < 8 * n_prompts})

\* the mutation of finished_job: the job is left as it was
finished_job_left_processing(job) ==
    job

\* the job as process_batch_generation leaves it
finished_job(job) ==
    [job EXCEPT !.status = "completed", !.completed_images = successful(job.total_images)]

\* process_batch_generation, run as a background task once the response is sent;
\* neither the renderer nor the update raises, so status "failed" is never set
process_batch_generation(batch_id) ==
    /\ batch_id \in tasks
    /\ tasks' = tasks \ {batch_id}
    /\ batch_jobs' = IF batch_id \in DOMAIN batch_jobs
                     THEN [batch_jobs EXCEPT ![batch_id] = finished_job(@)]
                     ELSE batch_jobs
    /\ UNCHANGED <<profiles, disk_profiles, disk_models, now, seedOutcome, lastCall,
                   expected, fx, style_profiles, pending, runs>>

InitAgents ==
    /\ InitStore
    /\ seedOutcome = [x \in FitNames |-> 0]
    /\ fx = Idle

NextAgents ==
    \/ \E d \in Designers : analyze_portfolio(d)
    \/ \E d \in Designers, feedback_list \in FeedbackLists : submit_feedback(d, feedback_list)
    \/ \E i \in 1..MaxInFlight : feedback_processed(i)
    \/ \E d \in Designers, batch_id \in JobIds : generate_images(d, batch_id)
    \/ \E batch_id \in JobIds : process_batch_generation(batch_id)

SpecAgents == InitAgents /\ [][NextAgents]_vars

\* the requests that reach the batch jobs
NextBatch ==
    \/ \E d \in Designers : analyze_portfolio(d)
    \/ \E d \in Designers, batch_id \in JobIds : generate_images(d, batch_id)
    \/ \E batch_id \in JobIds : process_batch_generation(batch_id)

\* Starlette runs every added background task after the response is sent
SpecBatchFair ==
    /\ InitAgents
    /\ [][NextBatch]_vars
    /\ \A batch_id \in JobIds : WF_vars(process_batch_generation(batch_id))

----------------------------------------------------------------------------
(* Properties of create_profile *)

CreateDone == lastCall.op = "create" /\ lastCall.error = "none"

\* C1: the profile create returns for a batch of N >= 1 records has cluster
\* sizes that sum to N and percentages (each 100 * size / N) that sum to 100
C1_SizesSumToN ==
    (CreateDone /\ Len(lastCall.records) >= 1) =>
        LET clusters == lastCall.ret.clusters
            N == Len(lastCall.records)
        IN  /\ SumSeq([i \in 1..Len(clusters) |-> clusters[i].size]) = N
            /\ \A i \in 1..Len(clusters) : clusters[i].percentage[2] = N
            /\ SumSeq([i \in 1..Len(clusters) |-> clusters[i].percentage[1]]) = 100 * N

\* three records over three components, one of them left empty by the fit
C1_ThreeRecordsSplit ==
    /\ CreateDone
    /\ Len(lastCall.records) = 3
    /\ Len(lastCall.ret.clusters) = 3
    /\ lastCall.ret.clusters[1].size = 2
    /\ lastCall.ret.clusters[3].size = 0

\* C2: a create asked for more clusters than its N >= 1 records clamps the
\* count and returns a profile with n_clusters = N; it does not raise (said
\* here of the batches the extraction turns into at least one column)
C2_ClampedCreateReturns ==
    (/\ lastCall.op = "create"
     /\ Len(lastCall.records) >= 1
     /\ lastCall.k > Len(lastCall.records)
     /\ Extracted[lastCall.records].raised = "no"
     /\ ~ScalerFitRaises(Extracted[lastCall.records].features))
    => (lastCall.error = "none" /\ lastCall.ret.n_clusters = Len(lastCall.records))

\* C3: a create with an empty record list is rejected before the extraction
\* (or any later stage) runs
C3_EmptyCreateRejectedFirst ==
    (lastCall.op = "create" /\ lastCall.records = <<>>) =>
        (lastCall.error # "none" /\ lastCall.steps = <<>>)

----------------------------------------------------------------------------
(* Properties of update_profile and get_profile *)

\* C4: an update for an identity with neither a cached nor a persisted
\* profile raises the not-found ValueError of update_profile and changes
\* neither the cache nor the files
C4_UpdateUnknownRejected ==
    [][(/\ lastCall = Waiting
        /\ lastCall'.op = "update"
        /\ profiles[lastCall'.store][lastCall'.user] = NoProfile
        /\ disk_profiles[lastCall'.user] = NoProfile)
       => (/\ lastCall'.error = "ValueError"
           /\ lastCall'.steps = <<"get_profile">>
           /\ profiles' = profiles
           /\ disk_profiles' = disk_profiles
           /\ disk_models' = disk_models)]_vars

\* the update of an unknown identity is refused while the other identity has a profile
C4_UnknownBesideKnown ==
    /\ lastCall.op = "update"
    /\ lastCall.error = "ValueError"
    /\ lastCall.steps = <<"get_profile">>
    /\ disk_profiles[lastCall.user] = NoProfile
    /\ \E u \in Users : disk_profiles[u] # NoProfile

C5_CountIsSum ==
    \A u \in Users :
        expected[u] > 0 =>
            /\ disk_profiles[u] # NoProfile
            /\ disk_profiles[u].n_records = expected[u]
            /\ \A s \in LocalStores :
                   profiles[s][u] # NoProfile => profiles[s][u].n_records = expected[u]

C5_UpdateAddsBatch ==
    (/\ lastCall = Waiting
     /\ lastCall'.op = "update"
     /\ lastCall'.error = "none")
    => LET u == lastCall'.user
           b == Len(lastCall'.records)
       IN  /\ disk_profiles'[u].n_records = disk_profiles[u].n_records + b
           /\ profiles'[lastCall'.store][u].n_records = disk_profiles[u].n_records + b
           /\ lastCall'.ret.n_records = disk_profiles[u].n_records + b

\* C5: after a create with N records and successful updates with batches
\* b1..bm of the same identity, n_records of the persisted and of the cached
\* profile is N + |b1| + ... + |bm|; each update adds the size of its batch
C5_RecordCount == []C5_CountIsSum /\ [][C5_UpdateAddsBatch]_vars

\* a profile of two records after two updates of one record each
C5_TwoUpdates ==
    /\ lastCall.op = "update"
    /\ lastCall.error = "none"
    /\ Len(lastCall.records) = 1
    /\ lastCall.ret.n_records = 4
    /\ expected[lastCall.user] = 4

\* C6: right after a successful create, get_profile for that identity gives
\* n_records = the length of the list and n_clusters = the clamped count,
\* whatever profile was stored for the identity before
C6_GetAfterCreate ==
    CreateDone =>
        LET got == get_profile(profiles[lastCall.store], lastCall.user)
            N == Len(lastCall.records)
        IN  /\ got # NoProfile
            /\ got.n_records = N
            /\ got.n_clusters = IF lastCall.k > N THEN Max(1, N) ELSE lastCall.k

\* a create of fewer records than the profile it replaces held, clamped
C6_CreateOverLarger ==
    /\ CreateDone
    /\ lastCall.before > Len(lastCall.records)
    /\ lastCall.k > Len(lastCall.records)

\* C7: get_profile returns the cached profile if there is one; otherwise the
\* persisted one, which it puts in the cache; otherwise None, and then it
\* changes neither the cache nor the files
C7_GetCases ==
    [][(lastCall = Waiting /\ lastCall'.op = "get") =>
        LET s == lastCall'.store
            u == lastCall'.user
        IN  IF profiles[s][u] # NoProfile
            THEN lastCall'.ret = profiles[s][u]
            ELSE IF disk_profiles[u] # NoProfile
            THEN /\ lastCall'.ret = disk_profiles[u]
                 /\ profiles'[s][u] = disk_profiles[u]
            ELSE /\ lastCall'.ret = NoProfile
                 /\ profiles' = profiles
                 /\ disk_profiles' = disk_profiles
                 /\ disk_models' = disk_models]_vars

\* a get that found nothing cached and loaded the persisted profile
C7_LoadedFromDisk ==
    /\ lastCall.op = "get"
    /\ ~lastCall.cached
    /\ lastCall.ret # NoProfile
    /\ profiles[lastCall.store][lastCall.user] = lastCall.ret

----------------------------------------------------------------------------
(* Properties of _extract_features and of the handlers *)

\* every mapping of the record is absent, None or empty
Unpopulated(record) ==
    \A m \in {"attributes", "colors", "style"} :
        IsNone(GetMap(record, m)) \/ DOMAIN GetMap(record, m) = {}

\* C8: the extraction never raises on records with missing or unset optional
\* fields, and the row of a record with no populated field is all zeros
C8_ExtractionTotal ==
    (fx.fn = "extract" /\ fx.out.raised # "pending") =>
        /\ fx.out.raised = "no"
        /\ \A i \in 1..Len(fx.in) :
               Unpopulated(Catalog[fx.in[i]]) =>
                   \A j \in 1..Len(fx.out.features[i]) : fx.out.features[i][j] = 0

\* C9: a get or an update for an identity that has no profile is answered
\* with 404
C9_UnknownIs404 ==
    (/\ lastCall.op \in {"get", "update"}
     /\ profiles[lastCall.store][lastCall.user] = NoProfile
     /\ disk_profiles[lastCall.user] = NoProfile)
    => lastCall.http = 404

\* C10: a successful create leaves, but for the identity and the timestamps,
\* what the first successful create of the same records and cluster count left
C10_SameRequestSameOutcome ==
    (CreateDone /\ fx.fn = "repeat" /\ fx.first # NoProfile) =>
        Outcome([labels |-> lastCall.labels, profile |-> lastCall.ret]) = fx.first

----------------------------------------------------------------------------
(* Properties of the stored profiles under updates *)

UpdateDone == lastCall.op = "update" /\ lastCall.error = "none"

BySize(profile) ==
    \A i \in 1..(Len(profile.clusters) - 1) :
        profile.clusters[i].size >= profile.clusters[i + 1].size

\* C11: every profile the store holds, cached or persisted, after create and
\* after any successful updates, lists its clusters by non-increasing size.
C11_ClustersOrderedBySize ==
    \A u \in Users :
        /\ disk_profiles[u] # NoProfile => BySize(disk_profiles[u])
        /\ \A s \in AllStores : profiles[s][u] # NoProfile => BySize(profiles[s][u])

\* C12: a create, update or get for one identity leaves the cached profile,
\* the persisted profile and the persisted models of every other identity as
\* they were, whatever calls came before.
C12_OtherIdentitiesUntouched ==
    [][\A u \in Users :
          (lastCall = Waiting /\ lastCall' # Waiting /\ lastCall'.user = u)
          => \A v \in Users \ {u} :
                 /\ \A s \in AllStores : profiles'[s][v] = profiles[s][v]
                 /\ disk_profiles'[v] = disk_profiles[v]
                 /\ disk_models'[v] = disk_models[v]]_vars

\* the profile of u1 has been replaced while u2 holds one, cached and persisted
C12_ReplacedBesideOther ==
    /\ CreateDone
    /\ lastCall.user = "u1"
    /\ lastCall.before > 0
    /\ profiles["p1"]["u2"] # NoProfile
    /\ disk_profiles["u2"] # NoProfile
    /\ disk_models["u2"] # NoProfile
    /\ disk_profiles["u2"] # disk_profiles["u1"]

\* C13: within one store, whatever calls were made and whether they failed,
\* a cached profile equals the persisted profile of its identity, and both
\* are what the most recent successful create or update stored.
C13_CacheIsPersisted ==
    \A s \in LocalStores, u \in Users :
        profiles[s][u] # NoProfile
        => /\ profiles[s][u] = disk_profiles[u]
           /\ disk_profiles[u].n_records = expected[u]

\* C14: updates of one identity that run one at a time, through whichever
\* process over the same models_dir, lose nothing: each successful update
\* raises the persisted n_records by the size of its batch, so that after all
\* of them it is the count before them plus the sum of the batch sizes.
C14_NoUpdateLost ==
    [][\A s \in AllStores, u \in Users :
          (/\ lastCall = Waiting
           /\ lastCall'.op = "update"
           /\ lastCall'.error = "none"
           /\ lastCall'.store = s
           /\ lastCall'.user = u)
          => disk_profiles'[u].n_records
                 = disk_profiles[u].n_records + Len(lastCall'.records)]_vars

\* the new records whose predicted label is c
Labelled(labels, c) == Cardinality({i \in 1..Len(labels) : labels[i] = c})

\* C16: a successful update merges the batch by predicted label: the stored
\* cluster whose id is c grows by the number of new records labelled c, and
\* a cluster labelled by none of them keeps its size and dominant attributes.
C16_MergedByLabel ==
    [][\A s \in AllStores, u \in Users :
          (/\ lastCall = Waiting
           /\ lastCall'.op = "update"
           /\ lastCall'.error = "none"
           /\ lastCall'.store = s
           /\ lastCall'.user = u)
          => LET old == get_profile(profiles[s], u).clusters
                 new == disk_profiles'[u].clusters
             IN  \A i \in 1..Len(old) :
                     \E j \in 1..Len(new) :
                         /\ new[j].id = old[i].id
                         /\ new[j].size = old[i].size + Labelled(lastCall'.labels, old[i].id)
                         /\ Labelled(lastCall'.labels, old[i].id) = 0
                            => new[j].dominant_attributes = old[i].dominant_attributes]_vars

\* C17: a successful update refits nothing: the persisted models are the ones
\* persisted before it, and n_clusters, created_at and feature_importance of
\* the profile stay as they were.
C17_UpdateKeepsFit ==
    [][\A s \in AllStores, u \in Users :
          (/\ lastCall = Waiting
           /\ lastCall'.op = "update"
           /\ lastCall'.error = "none"
           /\ lastCall'.store = s
           /\ lastCall'.user = u)
          => LET old == get_profile(profiles[s], u)
                 new == disk_profiles'[u]
             IN  /\ disk_models'[u] = disk_models[u]
                 /\ new.n_clusters = old.n_clusters
                 /\ new.created_at = old.created_at
                 /\ new.feature_importance = old.feature_importance
                 /\ profiles'[s][u] = new]_vars

\* an update stored at a later clock reading than the create
C17_UpdatedLater ==
    /\ UpdateDone
    /\ lastCall.ret.updated_at > lastCall.ret.created_at
    /\ disk_profiles[lastCall.user] = lastCall.ret
    /\ disk_models[lastCall.user].gmm.n_components = lastCall.ret.n_clusters

\* C18: when update has applied the stored scaler and reducer to a batch,
\* the columns extracted from the batch are the columns they were fitted on
\* in create: the same names in the same order.
C18_SameColumns ==
    UpdateDone
    => Extracted[lastCall.records].feature_names
           = Extracted[disk_models[lastCall.user].scaler.fit_data].feature_names

\* C19: an update for an identity whose profile exists while its models file
\* is gone fails when the models are loaded, and the profile of the identity
\* stays as it was, persisted and as get_profile answers it.
C19_MissingModelsRejected ==
    [][\A s \in AllStores, u \in Users :
          (/\ lastCall = Waiting
           /\ lastCall'.op = "update"
           /\ lastCall'.store = s
           /\ lastCall'.user = u
           /\ get_profile(profiles[s], u) # NoProfile
           /\ disk_models[u] = NoProfile)
          => /\ lastCall'.error = "FileNotFoundError"
             /\ lastCall'.steps = <<"get_profile", "load_models">>
             /\ lastCall'.http = 500
             /\ disk_profiles'[u] = disk_profiles[u]
             /\ disk_models'[u] = disk_models[u]
             /\ profiles'[s][u] = get_profile(profiles[s], u)]_vars

\* the update of a cached, persisted profile has failed on the missing models
C19_FailedOnLoad ==
    /\ lastCall.op = "update"
    /\ lastCall.error = "FileNotFoundError"
    /\ lastCall.records # <<>>
    /\ disk_profiles[lastCall.user] # NoProfile
    /\ profiles[lastCall.store][lastCall.user] = disk_profiles[lastCall.user]
    /\ disk_models[lastCall.user] = NoProfile

----------------------------------------------------------------------------
(* Properties of the style names *)

\* the dominant value of an attribute of a cluster, "unknown" without one
Dominant(cluster, name) ==
    IF name \in DOMAIN cluster.dominant_attributes
    THEN cluster.dominant_attributes[name][1]
    ELSE "unknown"

C15_EarlierArchetypeWins ==
    /\ CreateDone
    /\ \E i \in 1..Len(lastCall.ret.clusters) :
           /\ Dominant(lastCall.ret.clusters[i], "style_aesthetic") = "romantic"
           /\ lastCall.ret.clusters[i].style_summary \in {"Minimalist Tailoring",
                                                          "Fluid Evening"}

----------------------------------------------------------------------------
(* Properties of the cluster analyzer *)

\* C20: the analyzer returns one cluster per distinct label: as many
\* clusters as there are distinct labels, each of size at least 1, also when
\* a component below the largest label has no member.
C20_OneClusterPerLabel ==
    CreateDone
    => /\ Len(lastCall.ret.clusters) = Cardinality(Range(lastCall.labels))
       /\ \A i \in 1..Len(lastCall.ret.clusters) : lastCall.ret.clusters[i].size >= 1

----------------------------------------------------------------------------
(* Properties of the reduction *)

\* C21: for every non-empty batch the extractor accepts, create requests
\* min(10, n_records, n_features) projection components and at least 1, also
\* for a single record and for records without any populated field.
C21_ComponentsAtLeastOne ==
    (/\ lastCall.op = "create"
     /\ lastCall.records # <<>>
     /\ Extracted[lastCall.records].raised = "no")
    => LET features == Extracted[lastCall.records].features
       IN  /\ "pca" \in Range(lastCall.steps)
           /\ PcaComponents(features) = Min(10, Min(Len(features), Len(features[1])))
           /\ PcaComponents(features) >= 1

----------------------------------------------------------------------------
(* Properties of the feature matrix *)

\* the (field, value) pairs a record carries, and those seen in a batch
PairsOf(record) == Range(Collected(record))
PairsSeen(vlt_records) == UNION {PairsOf(vlt_records[i]) : i \in 1..Len(vlt_records)}

\* C22: for a non-empty batch the extractor returns one row per record, in
\* input order, one column and one name per distinct (field, value) pair of
\* the batch, and the entry of a record in a column is 1 exactly when the
\* record carries that pair, 0 otherwise.
C22_OneHotMatrix ==
    (/\ fx.fn = "extract"
     /\ fx.in # <<>>
     /\ fx.out.raised = "no")
    => LET vlt_records == Records(fx.in)
           cols == Columns(vlt_records)
       IN  /\ Len(fx.out.features) = Len(vlt_records)
           /\ Len(fx.out.feature_names) = Cardinality(PairsSeen(vlt_records))
           /\ Range(cols) = PairsSeen(vlt_records)
           /\ \A i \in 1..Len(vlt_records) :
                  /\ Len(fx.out.features[i]) = Len(fx.out.feature_names)
                  /\ \A j \in 1..Len(cols) :
                         fx.out.features[i][j]
                             = IF cols[j] \in PairsOf(vlt_records[i]) THEN 1 ELSE 0

----------------------------------------------------------------------------
(* Properties of the fallback name *)

\* C23: a cluster of which neither the dominant aesthetic, nor the overall
\* style, nor the silhouette, nor the fabrication is known is given the
\* placeholder name "Mixed Style".
C23_PlaceholderName ==
    CreateDone =>
        \A i \in 1..Len(lastCall.ret.clusters) :
            LET c == lastCall.ret.clusters[i]
            IN  (/\ Dominant(c, "style_aesthetic") = "unknown"
                 /\ Dominant(c, "style_overall") = "unknown"
                 /\ Dominant(c, "silhouette") = "unknown"
                 /\ Dominant(c, "fabrication") = "unknown")
                => c.style_summary = "Mixed Style"

----------------------------------------------------------------------------
(* Properties of the dominant attributes *)

\* the (attribute, value) pairs of the members of a cluster, in encounter order
MemberPairs(cluster) ==
    LET members == Members(Records(lastCall.records), lastCall.labels, cluster.id)
    IN  Flatten([i \in 1..Len(members) |-> Counted(members[i])])

Occurrences(pairs, pair) == Cardinality({i \in 1..Len(pairs) : pairs[i] = pair})

\* C24: in every cluster, every attribute carried by a member has a dominant
\* value; it occurs as often among the members as any other value of the
\* attribute, and among the values that occur most often it is the one the
\* members show first.
C24_DominantIsFirstMostFrequent ==
    CreateDone =>
        \A c \in 1..Len(lastCall.ret.clusters) :
            LET cluster == lastCall.ret.clusters[c]
                pairs == MemberPairs(cluster)
                dominant == cluster.dominant_attributes
            IN  /\ DOMAIN dominant = {pairs[i][1] : i \in 1..Len(pairs)}
                /\ \A i \in 1..Len(pairs) :
                       LET d == dominant[pairs[i][1]]
                       IN  /\ d[2] = Occurrences(pairs, <<pairs[i][1], d[1]>>)
                           /\ Occurrences(pairs, pairs[i]) <= d[2]
                           /\ (Occurrences(pairs, pairs[i]) = d[2] /\ pairs[i][2] # d[1])
                              => \E j \in 1..(i - 1) : pairs[j] = <<pairs[i][1], d[1]>>

\* a cluster of three members in which two values of one attribute tie at
\* first sight and the later one is the more frequent
C24_LaterValueDominant ==
    /\ CreateDone
    /\ lastCall.records = <<"b", "a", "a">>
    /\ lastCall.labels = <<0, 0, 0>>
    /\ lastCall.ret.clusters[1].dominant_attributes["style_aesthetic"] = <<"minimalist", 2>>

\* a cluster in which two values of one attribute occur equally often
C24_TieFirstWins ==
    /\ CreateDone
    /\ lastCall.records = <<"b", "a">>
    /\ lastCall.labels = <<0, 0>>
    /\ lastCall.ret.clusters[1].dominant_attributes["style_aesthetic"] = <<"romantic", 1>>

----------------------------------------------------------------------------
(* Properties of the representative records *)

Represented == fx.fn = "represent" /\ fx.out[1] = "returned"

\* the member (position from 0) an identifier of the list stands for
MemberOf(records, identifier) ==
    CHOOSE i \in 0..(Len(records) - 1) : Identifier(records, i) = identifier

\* C25: for a cluster of m members the list holds min(3, m) identifiers of
\* distinct members, in order of non-increasing membership probability, and
\* no member left out has a higher probability than a member listed.
C25_TopThreeByProbability ==
    Represented =>
        LET records == Records(fx.in.records)
            pr == fx.in.probabilities
            reps == fx.out[2]
            m == Len(records)
            listed == {MemberOf(records, reps[k]) : k \in 1..Len(reps)}
        IN  /\ Len(reps) = Min(3, m)
            /\ \A k \in 1..Len(reps) :
                   \E i \in 0..(m - 1) : Identifier(records, i) = reps[k]
            /\ Cardinality(listed) = Len(reps)
            /\ \A k \in 1..(Len(reps) - 1) :
                   pr[MemberOf(records, reps[k]) + 1] >= pr[MemberOf(records, reps[k + 1]) + 1]
            /\ \A i \in (0..(m - 1)) \ listed :
                   \A j \in listed : pr[i + 1] <= pr[j + 1]

\* four members of different probabilities: the most probable three are
\* listed, the least probable one, given first, is left out
C25_FourthLeftOut ==
    /\ Represented
    /\ fx.in.records = <<"a", "b", "c", "q">>
    /\ fx.in.probabilities = <<0, 2, 1, 2>>
    /\ fx.out[2][3] = "c"
    /\ "a" \notin Range(fx.out[2])

----------------------------------------------------------------------------
(* Properties of the cluster counters *)

\* C26: in every persisted profile, after create and after successful
\* updates, the cluster sizes sum to n_records and the percentage of each
\* cluster is its size over n_records, times 100.
C26_SizesAndPercentages ==
    \A u \in Users :
        disk_profiles[u] # NoProfile
        => /\ Clustered(disk_profiles[u]) = disk_profiles[u].n_records
           /\ \A i \in 1..Len(disk_profiles[u].clusters) :
                  LET c == disk_profiles[u].clusters[i]
                  IN  c.percentage[1] * disk_profiles[u].n_records
                          = 100 * c.size * c.percentage[2]

\* C27: in every persisted profile, after create and after successful
\* updates, the style name of each cluster is the name the naming rule gives
\* the dominant attributes the cluster holds.
C27_NameFollowsDominant ==
    \A u \in Users :
        disk_profiles[u] # NoProfile
        => \A i \in 1..Len(disk_profiles[u].clusters) :
               disk_profiles[u].clusters[i].style_summary
                   = summarize_cluster_style(disk_profiles[u].clusters[i].dominant_attributes)

\* C28: the n_clusters a created profile records is the number of entries of
\* its cluster list, also when a requested component has no record.
C28_CountIsListLength ==
    CreateDone => lastCall.ret.n_clusters = Len(lastCall.ret.clusters)

----------------------------------------------------------------------------
(* Properties of the agents service *)

\* the profile the handlers take as the latest of designer d
LatestProfile(d) == style_profiles[latest_profile_key(style_profiles, d)]

\* C29: the profile treated as a designer's latest is the stored one with the
\* numerically greatest version: after one portfolio analysis followed by n
\* successful feedback submissions, handled one after the other, the latest
\* profile has version 1 + n, for every n
C29_LatestIsOnePlusSubmissions ==
    \A d \in DOMAIN runs :
        (/\ runs[d].analyses = 1
         /\ ~runs[d].overlapped
         /\ \A i \in 1..Len(pending) : pending[i].designer_id # d)
        => /\ LatestProfile(d).version = 1 + runs[d].submitted
           /\ \A k \in profile_keys(style_profiles, d) :
                  style_profiles[k].version <= LatestProfile(d).version

\* C30: every batch job is created in status "processing" with
\* completed_images at most total_images, keeps completed_images at most
\* total_images, never goes back to "processing" once it has left it, and, its
\* background task being run, reaches "completed" or "failed"
C30_BatchJobRunsToItsEnd ==
    /\ [](\A b \in DOMAIN batch_jobs :
              batch_jobs[b].completed_images <= batch_jobs[b].total_images)
    /\ [][\A b \in DOMAIN batch_jobs' :
              IF b \in DOMAIN batch_jobs
              THEN batch_jobs[b].status # "processing"
                       => batch_jobs'[b].status # "processing"
              ELSE batch_jobs'[b].status = "processing"]_vars
    /\ [][DOMAIN batch_jobs \subseteq DOMAIN batch_jobs']_vars
    /\ \A b \in JobIds :
           (b \in DOMAIN batch_jobs)
               ~> (b \in DOMAIN batch_jobs
                   /\ batch_jobs[b].status \in {"completed", "failed"})

\* C30 happens: a job has been run to "completed" with fewer images than asked
C30_JobCompleted ==
    \E b \in DOMAIN batch_jobs :
        /\ batch_jobs[b].status = "completed"
        /\ b \notin tasks
        /\ batch_jobs[b].completed_images = successful(BatchPrompts)
        /\ batch_jobs[b].completed_images < batch_jobs[b].total_images

====
